---- MODULE Spec2Model ----
(***************************************************************************)
(* Model of src/lib/silvaConnect.js: the connection state machine of       *)
(* silvaConnect(), the per-socket anti-delete cache, the message queue of   *)
(* processMessageQueue(), the messages.update deletion pipeline and the     *)
(* module-level memory monitor.                                             *)
(*                                                                          *)
(* One step of the model is one run of JavaScript code between two points   *)
(* where the event loop can take over (an await, a timer, a socket event).  *)
(* Timers and awaited calls complete at any later moment.                   *)
(***************************************************************************)
EXTENDS Integers, Sequences, FiniteSets, TLC

----------------------------------------------------------------------------
(* Program constants *)

MAX_RECONNECT_ATTEMPTS == 10
RECONNECT_DELAY == 5000
RECONNECT_DELAY_CAP == 60000
DELETE_PROCESS_INTERVAL == 2000
HEAP_WARN_MB == 500
UNAUTHORIZED == 401

(* const MAX_CACHE = 1000 in the source; the model runs the same code with  *)
(* a capacity small enough for the overflow branch to be taken.             *)
MAX_CACHE == 2

----------------------------------------------------------------------------
(* Bounds of the model *)

MaxSock == 2        \* sockets makeWASocket may create
MaxInputs == 4      \* messages and update records the sockets deliver, all events together
MaxTicks == 2       \* clock steps of TickMs
MaxMemTicks == 1    \* runs of the memory monitor interval

TickMs == DELETE_PROCESS_INTERVAL \div 2
EpochMs == 4 * DELETE_PROCESS_INTERVAL   \* Date.now() at start, far above 0

Socks == 1..MaxSock
NULL == 0           \* currentSocket = null

----------------------------------------------------------------------------
(* Inputs: messages, update records, disconnect codes, heap samples *)

STATUS_JID == "status@broadcast"
OwnerJid == "owner@s.whatsapp.net"   \* sock.user.id

NoContent == [type |-> "none", text |-> ""]
Text(t) == [type |-> "conversation", text |-> t]
Media(t) == [type |-> t, text |-> ""]

(* msg.key absent: key = FALSE. msg.message absent: message = NoContent *)
Msg(j, i, c) == [key |-> TRUE, remoteJid |-> j, id |-> i, message |-> c]
NoKeyMsg == [key |-> FALSE, remoteJid |-> "", id |-> "", message |-> Text("x")]

Msgs ==
  { Msg("c1", "m1", Text("hello")),
    Msg("c1", "m1", Media("imageMessage")),
    Msg("c1", "m2", Text("bye")),
    Msg("c2", "m1", Media("pollCreationMessage")),
    Msg(STATUS_JID, "m3", Media("imageMessage")),
    Msg("c1", "m4", NoContent),
    NoKeyMsg }

(* one element of a messages.update array: { key, update } *)
Upd(j, i, me, cleared) ==
  [remoteJid |-> j, id |-> i, fromMe |-> me, cleared |-> cleared]

Updates ==
  { Upd("c1", "m1", FALSE, TRUE),     \* somebody else deleted (c1, m1)
    Upd("c1", "m9", FALSE, TRUE),     \* deletion of a message never received
    Upd("c1", "m1", TRUE, TRUE),      \* the account deleted its own message
    Upd("c1", "m1", FALSE, FALSE) }   \* an update that does not clear content

StatusCodes == {UNAUTHORIZED, 428}    \* lastDisconnect.error.output.statusCode
HeapSamples == {400, 600, 2000}       \* process.memoryUsage().heapUsed in MB

----------------------------------------------------------------------------
(* Sequence helpers *)

SeqsUpTo(S, n) == UNION { [1..k -> S] : k \in 0..n }

IsPrefix(a, b) == Len(a) <= Len(b) /\ SubSeq(b, 1, Len(a)) = a

----------------------------------------------------------------------------
(* The JavaScript Map behind messageCache: a sequence of [k, v] in insertion *)
(* order.                                                                    *)

(* `${msg.key.remoteJid}-${msg.key.id}` (lines 430, 470) *)
CacheKey(jid, id) == jid \o "-" \o id

CacheKeys == { CacheKey(m.remoteJid, m.id) : m \in {x \in Msgs : x.key} }

MapHas(map, k) == \E i \in 1..Len(map) : map[i].k = k

(* Map.prototype.get; Undefined when the key is absent *)
Undefined == [key |-> FALSE, remoteJid |-> "", id |-> "", message |-> NoContent]
MapGet(map, k) ==
  IF MapHas(map, k)
  THEN (CHOOSE e \in {map[i] : i \in 1..Len(map)} : e.k = k).v
  ELSE Undefined

MapSetMovesToEnd(map, k, v) ==
  Append(SelectSeq(map, LAMBDA e : e.k # k), [k |-> k, v |-> v])

(* Map.prototype.set: an existing key keeps its position *)
MapSet(map, k, v) ==
  IF MapHas(map, k)
  THEN [i \in 1..Len(map) |-> IF map[i].k = k THEN [k |-> k, v |-> v] ELSE map[i]]
  ELSE Append(map, [k |-> k, v |-> v])

MapDelete(map, k) == SelectSeq(map, LAMBDA e : e.k # k)

(* messageCache.keys().next().value (line 433) *)
FirstKey(map) == map[1].k

(* the key the overflow branch removes (lines 433-434) *)
EvictKey(map) == FirstKey(map)

OverflowsOffByOne(map) == Len(map) > MAX_CACHE + 1

(* lines 432-435: the overflow check after a set *)
Overflows(map) == Len(map) > MAX_CACHE

(* lines 430-435: cache one message *)
CachePut(map, msg) ==
  LET set == MapSet(map, CacheKey(msg.remoteJid, msg.id), msg) IN
  IF Overflows(set) THEN MapDelete(set, EvictKey(set)) ELSE set

----------------------------------------------------------------------------
(* State *)

VARIABLES
  \* module level (lines 175-179)
  isConnecting,       \* let isConnecting
  reconnectAttempts,  \* let reconnectAttempts
  currentSocket,      \* let currentSocket: NULL or a socket
  \* process and file system
  exited,             \* process.exit was called
  exitCode,           \* its argument
  sessions,           \* the ./sessions directory exists
  statusSaver,        \* STATUS_SAVER_ENABLED (process.env.Status_Saver === 'true')
  \* event loop
  bootCall,           \* the entry point's first silvaConnect() has not run yet
  closeTimers,        \* pending setTimeout of the close branch (line 320)
  retryTimers,        \* pending setTimeout of the catch branch (line 576)
  setupCalls,         \* silvaConnect bodies awaiting lines 208-214
  pluginCalls,        \* sockets whose silvaConnect body awaits loadPlugins (line 342)
  \* sockets
  nSock,              \* sockets created so far
  conn,               \* per socket: "none", "connecting", "open", "closed"
  registered,         \* per socket: messages.upsert / messages.update are subscribed
  \* per socket closure of silvaConnect
  messageCache,       \* Map in insertion order: sequence of [k, v]
  messageQueue,
  isProcessing,
  handling,           \* handler calls of processMessageQueue that are awaited (lines 361, 364)
  drainTimers,        \* pending setTimeout(processMessageQueue, 100)
  lastDeleteProcess,
  updLoops,           \* messages.update handlers suspended in their for loop
  \* clock and memory monitor
  now,                \* Date.now()
  memTicks,           \* runs of the setInterval callback
  lastSample,         \* heapUsed of the last run, 0 before the first
  \* history
  hist,               \* per socket: what was pushed, dispatched, evicted
  sent,               \* sendMessage calls of the deletion pipeline, with their outcome
  updLog,             \* per messages.update event: its updates, the cache it met, whether it passed the throttle
  rejected,           \* messages.update handlers whose promise rejected: [ev, pos]
  nInputs,            \* messages and update records delivered so far
  connLog             \* what the connection state machine did (for the claims)

connVars == <<isConnecting, reconnectAttempts, currentSocket, exited, exitCode,
              sessions, bootCall, closeTimers, retryTimers, setupCalls,
              pluginCalls, nSock, conn, registered, connLog>>
queueVars == <<messageQueue, isProcessing, handling, drainTimers>>
delVars == <<lastDeleteProcess, updLoops, sent, updLog, rejected>>
memVars == <<memTicks, lastSample>>
vars == <<connVars, statusSaver, messageCache, queueVars, delVars, memVars,
          now, hist, nInputs>>

----------------------------------------------------------------------------
(* Initial state: the module has been loaded, the entry point is about to   *)
(* call silvaConnect() for the first time.                                  *)

(* hist: pushed and dispatched are the messages appended to messageQueue and *)
(* handed to handleMessage, in order; born[k] is the number of the put that  *)
(* inserted the entry now cached under k (0: none); evictions records every  *)
(* removal by the overflow branch.                                           *)
(* written[k] is the number of the put that last wrote it; peak is the       *)
(* largest size the cache had when a put had finished; failed holds, for     *)
(* every awaited handler that threw or rejected, the number of messages      *)
(* handed to handleMessage up to then.                                       *)
EmptyHist == [pushed |-> << >>, dispatched |-> << >>, evictions |-> << >>,
              born |-> [k \in CacheKeys |-> 0],
              written |-> [k \in CacheKeys |-> 0], puts |-> 0, peak |-> 0,
              failed |-> {}]

Init ==
  /\ isConnecting = FALSE
  /\ reconnectAttempts = 0
  /\ currentSocket = NULL
  /\ exited = FALSE
  /\ exitCode = 0
  /\ sessions = TRUE
  /\ statusSaver \in BOOLEAN
  /\ bootCall = TRUE
  /\ closeTimers = 0
  /\ retryTimers = 0
  /\ setupCalls = 0
  /\ pluginCalls = {}
  /\ nSock = 0
  /\ conn = [s \in Socks |-> "none"]
  /\ registered = [s \in Socks |-> FALSE]
  /\ messageCache = [s \in Socks |-> << >>]
  /\ messageQueue = [s \in Socks |-> << >>]
  /\ isProcessing = [s \in Socks |-> FALSE]
  /\ handling = [s \in Socks |-> 0]
  /\ drainTimers = [s \in Socks |-> 0]
  /\ lastDeleteProcess = [s \in Socks |-> 0]
  /\ updLoops = {}
  /\ now = EpochMs
  /\ memTicks = 0
  /\ lastSample = 0
  /\ hist = [s \in Socks |-> EmptyHist]
  /\ sent = << >>
  /\ updLog = << >>
  /\ rejected = {}
  /\ nInputs = 0
  /\ connLog = [fatal |-> FALSE, incAfterFatal |-> FALSE, timerAfterFatal |-> FALSE,
                events |-> 0, last |-> [kind |-> "none", code |-> 0],
                delays |-> {}]

----------------------------------------------------------------------------
(* Connection state machine *)

Live(c, s) == c[s] \in {"connecting", "open"}

(* cleanupSocket (lines 182-190): sock.end() on the previous socket. The     *)
(* library is taken to end the socket without delivering a further           *)
(* connection.update to it.                                                  *)
cleanupSocket(c, s) ==
  IF s # NULL /\ Live(c, s) THEN [c EXCEPT ![s] = "closed"] ELSE c

(* connLog after a step that incremented the counter (inc) or scheduled a    *)
(* reconnect timer (timer); fatalNow: the step handles a 401 close.          *)
Logged(fatalNow, inc, timer) ==
  LET f == connLog.fatal \/ fatalNow IN
  [connLog EXCEPT !.fatal = f,
                  !.incAfterFatal = @ \/ (f /\ inc),
                  !.timerAfterFatal = @ \/ (f /\ timer)]

(* Delays are counted in parts of a millisecond small enough for            *)
(* RECONNECT_DELAY * 1.5^(k-1) to be an integer for every k up to            *)
(* MAX_RECONNECT_ATTEMPTS: 2^(MAX_RECONNECT_ATTEMPTS-1) parts per ms.        *)
MsParts == 2 ^ (MAX_RECONNECT_ATTEMPTS - 1)

(* Math.pow(1.5, n) for n in 0..MAX_RECONNECT_ATTEMPTS-1, times MsParts *)
Pow15(n) == (3 ^ n) * (2 ^ (MAX_RECONNECT_ATTEMPTS - 1 - n))

MathMin(a, b) == IF a <= b THEN a ELSE b

(* the delay of the close branch (line 317), in parts of a millisecond *)
CloseDelay(attempts) ==
  MathMin(RECONNECT_DELAY * Pow15(attempts - 1), RECONNECT_DELAY_CAP * MsParts)

RetryDelayUncapped(attempts) == RECONNECT_DELAY * Pow15(attempts - 1)

(* the delay of the catch branch (line 573), in parts of a millisecond *)
RetryDelay(attempts) ==
  MathMin(RECONNECT_DELAY * Pow15(attempts - 1), RECONNECT_DELAY_CAP * MsParts)

(* connLog.delays: the timer each branch scheduled last, with the counter   *)
(* value and the delay; connLog.events: the number of open and close events *)
(* handled so far, connLog.last: the last of them                           *)
Scheduled(log, branch, k, parts) ==
  [log EXCEPT !.delays = { x \in @ : x.branch # branch }
                           \cup {[branch |-> branch, k |-> k, parts |-> parts]}]

Handled(log, kind, code) ==
  [log EXCEPT !.events = @ + 1, !.last = [kind |-> kind, code |-> code]]

(* silvaConnect from its entry to its first await (lines 192-208) *)
silvaConnect ==
  IF isConnecting
  THEN UNCHANGED <<isConnecting, currentSocket, conn, setupCalls>>
  ELSE /\ isConnecting' = TRUE
       /\ conn' = cleanupSocket(conn, currentSocket)
       /\ currentSocket' = NULL
       /\ setupCalls' = setupCalls + 1

(* does the catch branch schedule a retry for this counter value (line 572) *)
RetryAllowed(attempts) == attempts <= MAX_RECONNECT_ATTEMPTS

(* the catch branch of silvaConnect (lines 566-584) *)
CatchBranch ==
  /\ isConnecting' = FALSE
  /\ reconnectAttempts' = reconnectAttempts + 1
  /\ retryTimers' = IF RetryAllowed(reconnectAttempts + 1)
                    THEN retryTimers + 1 ELSE retryTimers
  /\ connLog' = LET log == Logged(FALSE, TRUE, RetryAllowed(reconnectAttempts + 1)) IN
                IF RetryAllowed(reconnectAttempts + 1)
                THEN Scheduled(log, "catch", reconnectAttempts + 1,
                               RetryDelay(reconnectAttempts + 1))
                ELSE log
  /\ UNCHANGED <<exited, exitCode>>

(* the entry point calls silvaConnect() *)
Boot ==
  /\ ~exited /\ bootCall
  /\ bootCall' = FALSE
  /\ silvaConnect
  /\ UNCHANGED <<reconnectAttempts, exited, exitCode, sessions, closeTimers,
                 retryTimers, pluginCalls, nSock, registered, connLog>>
  /\ UNCHANGED <<statusSaver, messageCache, queueVars, delVars, memVars, now,
                 hist, nInputs>>

(* useMultiFileAuthState / makeWASocket throws (lines 208-235) *)
SetupFail ==
  /\ ~exited /\ setupCalls > 0
  /\ setupCalls' = setupCalls - 1
  /\ CatchBranch
  /\ UNCHANGED <<currentSocket, sessions, bootCall, closeTimers, pluginCalls,
                 nSock, conn, registered>>
  /\ UNCHANGED <<statusSaver, messageCache, queueVars, delVars, memVars, now,
                 hist, nInputs>>

(* makeWASocket returns; connection.update is subscribed; the body awaits    *)
(* loadPlugins (lines 217-342)                                               *)
MakeSocket ==
  /\ ~exited /\ setupCalls > 0 /\ nSock < MaxSock
  /\ LET s == nSock + 1 IN
       /\ nSock' = s
       /\ conn' = [conn EXCEPT ![s] = "connecting"]
       /\ currentSocket' = s
       /\ pluginCalls' = pluginCalls \cup {s}
  /\ setupCalls' = setupCalls - 1
  /\ UNCHANGED <<isConnecting, reconnectAttempts, exited, exitCode, sessions,
                 bootCall, closeTimers, retryTimers, registered, connLog>>
  /\ UNCHANGED <<statusSaver, messageCache, queueVars, delVars, memVars, now,
                 hist, nInputs>>

(* loadPlugins settles; messages.upsert and messages.update are subscribed;  *)
(* the status_saver directory is there or is made; return sock (340-564)     *)
PluginsDone(s) ==
  /\ ~exited /\ s \in pluginCalls
  /\ pluginCalls' = pluginCalls \ {s}
  /\ registered' = [registered EXCEPT ![s] = TRUE]
  /\ UNCHANGED <<isConnecting, reconnectAttempts, currentSocket, exited,
                 exitCode, sessions, bootCall, closeTimers, retryTimers,
                 setupCalls, nSock, conn, connLog>>
  /\ UNCHANGED <<statusSaver, messageCache, queueVars, delVars, memVars, now,
                 hist, nInputs>>

(* as PluginsDone, but fs.mkdirSync of line 560 throws: the catch branch     *)
(* runs with the socket made and subscribed                                  *)
MkdirFail(s) ==
  /\ ~exited /\ s \in pluginCalls /\ statusSaver
  /\ pluginCalls' = pluginCalls \ {s}
  /\ registered' = [registered EXCEPT ![s] = TRUE]
  /\ CatchBranch
  /\ UNCHANGED <<currentSocket, sessions, bootCall, closeTimers, setupCalls,
                 nSock, conn>>
  /\ UNCHANGED <<statusSaver, messageCache, queueVars, delVars, memVars, now,
                 hist, nInputs>>

(* connection.update with connection = "open" (lines 248-290). The welcome   *)
(* message and newsletterFollow are awaited inside their own try/catch and   *)
(* touch no variable of the program.                                         *)
ConnOpen(s) ==
  /\ ~exited /\ conn[s] = "connecting"
  /\ conn' = [conn EXCEPT ![s] = "open"]
  /\ reconnectAttempts' = 0
  /\ isConnecting' = FALSE
  /\ connLog' = Handled(connLog, "open", 0)
  /\ UNCHANGED <<currentSocket, exited, exitCode, sessions, bootCall,
                 closeTimers, retryTimers, setupCalls, pluginCalls, nSock,
                 registered>>
  /\ UNCHANGED <<statusSaver, messageCache, queueVars, delVars, memVars, now,
                 hist, nInputs>>

(* does the close branch give up for this counter value (line 311) *)
GiveUp(attempts) == attempts > MAX_RECONNECT_ATTEMPTS

(* is the session wiped for this status code (line 299) *)
SessionInvalid(code) == code = UNAUTHORIZED

(* connection.update with connection = "close" (lines 292-327); rmOk: the    *)
(* fs.rmSync of line 302 does not throw                                      *)
ConnClose(s, code, rmOk) ==
  /\ ~exited /\ Live(conn, s)
  /\ conn' = [conn EXCEPT ![s] = "closed"]
  /\ isConnecting' = FALSE
  /\ sessions' = IF SessionInvalid(code) /\ rmOk THEN FALSE ELSE sessions
  /\ reconnectAttempts' = reconnectAttempts + 1
  /\ IF GiveUp(reconnectAttempts + 1)
     THEN /\ exited' = TRUE
          /\ exitCode' = 1
          /\ closeTimers' = closeTimers
     ELSE /\ closeTimers' = closeTimers + 1
          /\ UNCHANGED <<exited, exitCode>>
  /\ connLog' =
       LET log == Handled(Logged(SessionInvalid(code), TRUE,
                                 ~GiveUp(reconnectAttempts + 1)), "close", code)
       IN IF GiveUp(reconnectAttempts + 1) THEN log
          ELSE Scheduled(log, "close", reconnectAttempts + 1,
                         CloseDelay(reconnectAttempts + 1))
  /\ UNCHANGED <<currentSocket, bootCall, retryTimers, setupCalls, pluginCalls,
                 nSock, registered>>
  /\ UNCHANGED <<statusSaver, messageCache, queueVars, delVars, memVars, now,
                 hist, nInputs>>

(* the timer of the close branch fires (lines 320-326) *)
CloseTimerFire ==
  /\ ~exited /\ closeTimers > 0
  /\ closeTimers' = closeTimers - 1
  /\ IF ~isConnecting
     THEN silvaConnect
     ELSE UNCHANGED <<isConnecting, currentSocket, conn, setupCalls>>
  /\ UNCHANGED <<reconnectAttempts, exited, exitCode, sessions, bootCall,
                 retryTimers, pluginCalls, nSock, registered, connLog>>
  /\ UNCHANGED <<statusSaver, messageCache, queueVars, delVars, memVars, now,
                 hist, nInputs>>

(* the timer of the catch branch fires (lines 576-580) *)
RetryTimerFire ==
  /\ ~exited /\ retryTimers > 0
  /\ retryTimers' = retryTimers - 1
  /\ silvaConnect
  /\ UNCHANGED <<reconnectAttempts, exited, exitCode, sessions, bootCall,
                 closeTimers, pluginCalls, nSock, registered, connLog>>
  /\ UNCHANGED <<statusSaver, messageCache, queueVars, delVars, memVars, now,
                 hist, nInputs>>

(* the setInterval callback of lines 602-607: it logs above 500 MB and       *)
(* changes nothing else                                                      *)
MemoryCheck(heapMb) ==
  /\ ~exited /\ memTicks < MaxMemTicks
  /\ memTicks' = memTicks + 1
  /\ lastSample' = heapMb
  /\ UNCHANGED <<connVars, statusSaver, messageCache, queueVars, delVars, now,
                 hist, nInputs>>

----------------------------------------------------------------------------
(* Ingress: messages.upsert and processMessageQueue *)

KeysOf(map) == { map[i].k : i \in 1..Len(map) }
Max(a, b) == IF a >= b THEN a ELSE b
MinOf(S) == CHOOSE x \in S : \A y \in S : x <= y

(* hist after the put of msg took the cache from map to after *)
HistPut(h, map, msg, after) ==
  LET k == CacheKey(msg.remoteJid, msg.id)
      n == h.puts + 1
      born1 == IF h.born[k] = 0 THEN [h.born EXCEPT ![k] = n] ELSE h.born
      removed == (KeysOf(map) \cup {k}) \ KeysOf(after)
      present == { x \in CacheKeys : born1[x] > 0 }
      ev == [removed |-> removed, inserted |-> k,
             bornRemoved |-> { born1[x] : x \in removed },
             writtenRemoved |-> { h.written[x] : x \in removed \ {k} },
             oldest |-> MinOf({ born1[x] : x \in present }),
             bornInserted |-> born1[k]]
  IN [h EXCEPT !.puts = n,
               !.born = [x \in CacheKeys |-> IF x \in removed THEN 0 ELSE born1[x]],
               !.written = [x \in CacheKeys |-> IF x \in removed THEN 0
                                                 ELSE IF x = k THEN n ELSE @[x]],
               !.evictions = IF removed = {} THEN @ ELSE Append(@, ev),
               !.peak = Max(@, Len(after))]

HasContentAlways(msg) == TRUE

(* is the message cached (line 429) *)
HasContent(msg) == msg.message # NoContent

(* is the message queued (line 425) *)
HasKey(msg) == msg.key

(* the body of messages.forEach (lines 424-438) for one message;            *)
(* st = [q, c, h]: messageQueue, messageCache, hist                          *)
UpsertOne(st, msg) ==
  IF ~HasKey(msg) THEN st
  ELSE LET q1 == Append(st.q, msg)
           h1 == [st.h EXCEPT !.pushed = Append(@, msg)]
       IN IF HasContent(msg)
          THEN LET c1 == CachePut(st.c, msg) IN
               [q |-> q1, c |-> c1, h |-> HistPut(h1, st.c, msg, c1)]
          ELSE [q |-> q1, c |-> st.c, h |-> h1]

RECURSIVE UpsertAll(_, _)
UpsertAll(st, batch) ==
  IF batch = << >> THEN st
  ELSE UpsertAll(UpsertOne(st, Head(batch)), Tail(batch))

DrainBlockedNoGuard(processing, q) == q = << >>

(* the early return of processMessageQueue (line 353) *)
DrainBlocked(processing, q) == processing \/ q = << >>

(* messageQueue.shift() (line 356) *)
Dequeue(q) == [msg |-> Head(q), rest |-> Tail(q)]

(* which handler line 359-365 awaits for msg: "status", "message", or       *)
(* "idle" when neither branch is taken                                       *)
HandlerFor(msg, saver) ==
  IF msg.remoteJid = STATUS_JID
  THEN (IF saver THEN "status" ELSE "idle")
  ELSE (IF HasContent(msg) THEN "message" ELSE "idle")

RearmNever(t) == t

(* setTimeout(processMessageQueue, 100) of the finally block (line 371):     *)
(* the pending timers after it                                               *)
Rearm(t) == t + 1

(* processMessageQueue from its entry to its first await, or to its end     *)
(* when it awaits nothing (lines 352-373);                                   *)
(* d = [q, p, hd, t, h]: messageQueue, isProcessing, handling, drainTimers,  *)
(* hist                                                                      *)
processMessageQueue(d, saver) ==
  IF DrainBlocked(d.p, d.q) THEN d
  ELSE LET x == Dequeue(d.q)
           hd == HandlerFor(x.msg, saver)
       IN IF hd = "idle"
          THEN [d EXCEPT !.q = x.rest, !.p = FALSE, !.t = Rearm(@)]
          ELSE [d EXCEPT !.q = x.rest, !.p = TRUE, !.hd = @ + 1,
                         !.h = IF hd = "message"
                               THEN [@ EXCEPT !.dispatched = Append(@, x.msg)]
                               ELSE @]

Drain(s, q, h) ==
  [q |-> q, p |-> isProcessing[s], hd |-> handling[s], t |-> drainTimers[s], h |-> h]

SetDrain(s, d) ==
  /\ messageQueue' = [messageQueue EXCEPT ![s] = d.q]
  /\ isProcessing' = [isProcessing EXCEPT ![s] = d.p]
  /\ handling' = [handling EXCEPT ![s] = d.hd]
  /\ drainTimers' = [drainTimers EXCEPT ![s] = d.t]
  /\ hist' = [hist EXCEPT ![s] = d.h]

(* the socket delivers a batch to messages.upsert (lines 420-442) *)
Upsert(s, batch) ==
  /\ ~exited /\ registered[s] /\ conn[s] = "open"
  /\ nInputs + Len(batch) <= MaxInputs
  /\ nInputs' = nInputs + Len(batch)
  /\ IF batch = << >>
     THEN UNCHANGED <<messageCache, queueVars, hist>>
     ELSE LET st == UpsertAll([q |-> messageQueue[s], c |-> messageCache[s],
                               h |-> hist[s]], batch)
          IN /\ messageCache' = [messageCache EXCEPT ![s] = st.c]
             /\ SetDrain(s, processMessageQueue(Drain(s, st.q, st.h), statusSaver))
  /\ UNCHANGED <<connVars, statusSaver, delVars, memVars, now>>

(* the awaited handleMessage / handleStatusMessage settles, resolved or     *)
(* rejected: the finally block runs (lines 366-372)                          *)
HandlerDone(s) ==
  /\ ~exited /\ handling[s] > 0
  /\ handling' = [handling EXCEPT ![s] = @ - 1]
  /\ isProcessing' = [isProcessing EXCEPT ![s] = FALSE]
  /\ drainTimers' = [drainTimers EXCEPT ![s] = Rearm(@)]
  /\ UNCHANGED <<connVars, statusSaver, messageCache, messageQueue, delVars,
                 memVars, now, hist, nInputs>>

CatchRethrows(d) == [d EXCEPT !.hd = @ - 1, !.h = [@ EXCEPT !.failed = @ \cup {Len(d.h.dispatched)}]]

(* the catch and finally blocks after a handler that threw (lines 366-372)  *)
CatchFinally(d) ==
  [d EXCEPT !.hd = @ - 1, !.p = FALSE, !.t = Rearm(@),
            !.h = [@ EXCEPT !.failed = @ \cup {Len(d.h.dispatched)}]]

(* the awaited handleMessage / handleStatusMessage throws or rejects: the   *)
(* catch block logs, the finally block runs (lines 366-372)                  *)
HandlerFail(s) ==
  /\ ~exited /\ handling[s] > 0
  /\ SetDrain(s, CatchFinally(Drain(s, messageQueue[s], hist[s])))
  /\ UNCHANGED <<connVars, statusSaver, messageCache, delVars, memVars, now,
                 nInputs>>

(* setTimeout(processMessageQueue, 100) fires *)
DrainTimerFire(s) ==
  /\ ~exited /\ drainTimers[s] > 0
  /\ LET d == Drain(s, messageQueue[s], hist[s]) IN
       SetDrain(s, processMessageQueue([d EXCEPT !.t = @ - 1], statusSaver))
  /\ UNCHANGED <<connVars, statusSaver, messageCache, delVars, memVars, now,
                 nInputs>>

----------------------------------------------------------------------------
(* Deletion recovery: messages.update, handleDeletedMessage,                 *)
(* handleMediaRecovery                                                       *)

(* net[i]: does the i-th network call of one handleDeletedMessage succeed:   *)
(* 1 the first sendMessage, 2 the text / unsupported-type sendMessage or     *)
(* the media download, 3 the media sendMessage, 4 the failure notice         *)
NetScripts == [1..4 -> BOOLEAN]
AllOk == [i \in 1..4 |-> TRUE]

TextTypes == {"conversation", "extendedTextMessage"}
MediaTypes == {"imageMessage", "videoMessage", "audioMessage", "stickerMessage",
               "documentMessage"}

(* one sendMessage call and whether it succeeded *)
Send(to, kind, text, ok) == [to |-> to, kind |-> kind, text |-> text, ok |-> ok]

RecoveryDestChat(upd) == upd.remoteJid

(* the destination of every sendMessage of the pipeline: sock.user.id *)
RecoveryDest(upd) == OwnerJid

(* msg.conversation || msg.extendedTextMessage?.text || "[Text message]" *)
RecoveredText(content) == IF content.text # "" THEN content.text ELSE "[Text message]"

(* handleMediaRecovery (lines 521-554): its sendMessage calls. A failed      *)
(* download or upload is caught at line 547 and the notice is sent.          *)
handleMediaRecovery(upd, content, net) ==
  (IF net[2] THEN <<Send(RecoveryDest(upd), "media", content.type, net[3])>> ELSE << >>)
  \o (IF net[2] /\ net[3] THEN << >>
      ELSE <<Send(RecoveryDest(upd), "reuploadFailed", "could not be reuploaded", net[4])>>)

AfterGetTakes(map, k) == MapDelete(map, k)

(* the Map after messageCache.get(k) (line 471), the only use the pipeline  *)
(* makes of messageCache: handleMediaRecovery receives the payload found    *)
(* and only reads it                                                         *)
AfterGet(map, k) == map

(* the lookup of line 471 *)
Lookup(map, upd) == MapGet(map, CacheKey(upd.remoteJid, upd.id))

(* handleDeletedMessage (lines 467-518): its sendMessage calls. A failure    *)
(* of the miss notice is caught at line 479; any failure after the lookup    *)
(* of a cached message ends the try block at line 515.                       *)
handleDeletedMessage(map, upd, net) ==
  LET originalMsg == Lookup(map, upd) IN
  IF ~HasContent(originalMsg)
  THEN <<Send(RecoveryDest(upd), "miss", "could not be recovered", net[1])>>
  ELSE <<Send(RecoveryDest(upd), "header", "Anti-Delete Triggered", net[1])>> \o
       (IF ~net[1] THEN << >>
        ELSE LET content == originalMsg.message IN
             IF content.type \in TextTypes
             THEN <<Send(RecoveryDest(upd), "text", RecoveredText(content), net[2])>>
             ELSE IF content.type \in MediaTypes
             THEN handleMediaRecovery(upd, content, net)
             ELSE <<Send(RecoveryDest(upd), "unsupported", content.type, net[2])>>)

Rethrown(throws) == throws

(* try { ... } catch (e) { logMessage(...) }: does an error thrown in the   *)
(* block leave the statement (lines 479, 515, 460)                           *)
Caught(throws) == FALSE

(* does handleMediaRecovery throw: only its catch block can, when the       *)
(* sendMessage of the failure notice fails (line 549)                        *)
MediaRecoveryThrows(net) == ~(net[2] /\ net[3]) /\ ~net[4]

(* does handleDeletedMessage throw (lines 473-516) *)
DeletedMessageThrows(map, upd, net) ==
  LET originalMsg == Lookup(map, upd) IN
  IF ~HasContent(originalMsg)
  THEN Caught(~net[1])
  ELSE Caught(\/ ~net[1]
              \/ IF originalMsg.message.type \in TextTypes THEN ~net[2]
                 ELSE IF originalMsg.message.type \in MediaTypes
                 THEN MediaRecoveryThrows(net)
                 ELSE ~net[2])

(* does one turn of the for loop throw (lines 456-462) *)
LoopTurnThrows(map, upd, net) == Caught(DeletedMessageThrows(map, upd, net))

IsDeletionAnyClear(upd) == upd.cleared

(* the filter of line 457 *)
IsDeletion(upd) == upd.cleared /\ ~upd.fromMe

(* the throttle of line 450 *)
Throttled(t, last) == t - last < DELETE_PROCESS_INTERVAL

RECURSIVE FirstDeletion(_, _)
FirstDeletion(ups, i) ==
  IF i > Len(ups) THEN 0
  ELSE IF IsDeletion(ups[i]) THEN i ELSE FirstDeletion(ups, i + 1)

(* the for loop of lines 455-463 from position from: it runs without        *)
(* suspending up to the first update that passes the filter, whose           *)
(* handleDeletedMessage it awaits. The result is the sendMessage calls of    *)
(* that call (tagged with the event, the position and the time), the        *)
(* position to resume at (0: the loop is over), the error that left the     *)
(* handler, if any, and the cache as the call leaves it.                     *)
RunLoop(map, ev, ups, from, net) ==
  LET i == FirstDeletion(ups, from) IN
  IF i = 0 THEN [sends |-> << >>, resume |-> 0, thrown |-> {}, cache |-> map]
  ELSE LET out == handleDeletedMessage(map, ups[i], net)
           throws == LoopTurnThrows(map, ups[i], net)
       IN
       [sends |-> [n \in 1..Len(out) |->
                     [ev |-> ev, pos |-> i, chat |-> ups[i].remoteJid,
                      to |-> out[n].to, kind |-> out[n].kind, text |-> out[n].text,
                      ok |-> out[n].ok, at |-> now]],
        resume |-> IF throws \/ FirstDeletion(ups, i + 1) = 0 THEN 0 ELSE i + 1,
        thrown |-> IF throws THEN {[ev |-> ev, pos |-> i]} ELSE {},
        cache |-> AfterGet(map, CacheKey(ups[i].remoteJid, ups[i].id))]

(* the network outcomes that matter to a loop resumed at from: none when    *)
(* no update passes the filter                                               *)
NetFor(ups, from) == IF FirstDeletion(ups, from) = 0 THEN {AllOk} ELSE NetScripts

CacheOfFirst(s) == messageCache[1]

(* the messageCache the handlers of socket s close over: the Map made by    *)
(* the silvaConnect call that made s (line 240), passed to                  *)
(* handleDeletedMessage at line 458                                          *)
CacheOf(s) == messageCache[s]

(* the socket delivers messages.update (lines 448-464) *)
UpdateEvent(s, ups, net) ==
  /\ ~exited /\ registered[s] /\ conn[s] = "open"
  /\ ups # << >>
  /\ nInputs + Len(ups) <= MaxInputs
  /\ nInputs' = nInputs + Len(ups)
  /\ LET ev == Len(updLog) + 1 IN
     IF Throttled(now, lastDeleteProcess[s])
     THEN /\ updLog' = Append(updLog, [sock |-> s, ups |-> ups, processed |-> FALSE,
                                      cache |-> messageCache[s]])
          /\ UNCHANGED <<lastDeleteProcess, updLoops, sent, rejected, messageCache>>
     ELSE LET r == RunLoop(CacheOf(s), ev, ups, 1, net) IN
          /\ updLog' = Append(updLog, [sock |-> s, ups |-> ups, processed |-> TRUE,
                                      cache |-> messageCache[s]])
          /\ lastDeleteProcess' = [lastDeleteProcess EXCEPT ![s] = now]
          /\ sent' = sent \o r.sends
          /\ rejected' = rejected \cup r.thrown
          /\ messageCache' = [messageCache EXCEPT ![s] = r.cache]
          /\ updLoops' = IF r.resume = 0 THEN updLoops
                         ELSE updLoops \cup {[ev |-> ev, sock |-> s, from |-> r.resume]}
  /\ UNCHANGED <<connVars, statusSaver, queueVars, memVars, now, hist>>

(* a suspended messages.update handler resumes its loop *)
UpdateResume(l, net) ==
  /\ ~exited /\ l \in updLoops
  /\ LET r == RunLoop(CacheOf(l.sock), l.ev, updLog[l.ev].ups, l.from, net) IN
       /\ sent' = sent \o r.sends
       /\ rejected' = rejected \cup r.thrown
       /\ messageCache' = [messageCache EXCEPT ![l.sock] = r.cache]
       /\ updLoops' = (updLoops \ {l}) \cup
                        (IF r.resume = 0 THEN {}
                         ELSE {[ev |-> l.ev, sock |-> l.sock, from |-> r.resume]})
  /\ UNCHANGED <<lastDeleteProcess, updLog>>
  /\ UNCHANGED <<connVars, statusSaver, queueVars, memVars, now, hist, nInputs>>

(* Date.now() advances *)
Tick ==
  /\ ~exited /\ now < EpochMs + MaxTicks * TickMs
  /\ now' = now + TickMs
  /\ UNCHANGED <<connVars, statusSaver, messageCache, queueVars, delVars,
                 memVars, hist, nInputs>>

NextConn ==
  \/ Boot
  \/ SetupFail
  \/ MakeSocket
  \/ \E s \in Socks : PluginsDone(s)
  \/ \E s \in Socks : MkdirFail(s)
  \/ \E s \in Socks : ConnOpen(s)
  \/ \E s \in Socks, code \in StatusCodes, rmOk \in BOOLEAN : ConnClose(s, code, rmOk)
  \/ CloseTimerFire
  \/ RetryTimerFire

SpecConn == Init /\ [][NextConn]_vars

(* a connection that is made and opens, and the messages it delivers *)
NextQueue ==
  \/ Boot
  \/ MakeSocket
  \/ \E s \in Socks : PluginsDone(s)
  \/ \E s \in Socks : ConnOpen(s)
  \/ \E s \in Socks, batch \in SeqsUpTo(Msgs, MaxInputs - nInputs) : Upsert(s, batch)
  \/ \E s \in Socks : HandlerDone(s)
  \/ \E s \in Socks : DrainTimerFire(s)

SpecQueue == Init /\ [][NextQueue]_vars

(* the same with the memory monitor running *)
NextWatch ==
  \/ NextQueue
  \/ \E h \in HeapSamples : MemoryCheck(h)

SpecWatch == Init /\ [][NextWatch]_vars

(* the same connection with handlers that may fail, under the scheduling    *)
(* the event loop gives: an awaited handler settles (the handlers are taken *)
(* to terminate) and a pending timer fires. One input less than MaxInputs   *)
(* is delivered, drawn from one message of each kind processMessageQueue    *)
(* tells apart (lines 359-365) and a second message with content.           *)
DrainInputs == MaxInputs - 1

DrainMsgs ==
  { Msg("c1", "m1", Text("hello")),
    Msg("c1", "m2", Text("bye")),
    Msg(STATUS_JID, "m3", Media("imageMessage")),
    Msg("c1", "m4", NoContent) }

NextDrain ==
  \/ Boot
  \/ MakeSocket
  \/ \E s \in Socks : PluginsDone(s)
  \/ \E s \in Socks : ConnOpen(s)
  \/ \E s \in Socks, batch \in SeqsUpTo(DrainMsgs, DrainInputs - nInputs) : Upsert(s, batch)
  \/ \E s \in Socks : HandlerDone(s)
  \/ \E s \in Socks : HandlerFail(s)
  \/ \E s \in Socks : DrainTimerFire(s)

SpecDrain ==
  /\ Init /\ [][NextDrain]_vars
  /\ \A s \in Socks : WF_vars(HandlerDone(s) \/ HandlerFail(s))
  /\ \A s \in Socks : WF_vars(DrainTimerFire(s))

(* a connection that is made and opens, with inbound messages and update    *)
(* events. The awaited message handler stays pending: the pipeline shares   *)
(* only messageCache with the ingress side, and only messages.upsert writes *)
(* it. One input less than MaxInputs is delivered.                           *)
DeleteInputs == MaxInputs - 1

NextDelete ==
  \/ Boot
  \/ MakeSocket
  \/ \E s \in Socks : PluginsDone(s)
  \/ \E s \in Socks : ConnOpen(s)
  \/ \E s \in Socks, batch \in SeqsUpTo(Msgs, DeleteInputs - nInputs) : Upsert(s, batch)
  \/ \E s \in Socks, ups \in SeqsUpTo(Updates, DeleteInputs - nInputs) :
        \E net \in NetFor(ups, 1) : UpdateEvent(s, ups, net)
  \/ \E l \in updLoops, net \in NetScripts : UpdateResume(l, net)
  \/ Tick

SpecDelete == Init /\ [][NextDelete]_vars

(* a connection that opens, closes and is made again by the reconnect       *)
(* timer, with a message and its deletion delivered on either socket. Two   *)
(* inputs less than MaxInputs are delivered; every network call succeeds.   *)
ReconnectInputs == MaxInputs - 2

ReconnectMsgs == { Msg("c1", "m1", Text("hello")), Msg("c1", "m2", Text("bye")) }
ReconnectUpdates == { Upd("c1", "m1", FALSE, TRUE) }

NextReconnect ==
  \/ Boot
  \/ MakeSocket
  \/ \E s \in Socks : PluginsDone(s)
  \/ \E s \in Socks : ConnOpen(s)
  \/ \E s \in Socks, code \in StatusCodes, rmOk \in BOOLEAN : ConnClose(s, code, rmOk)
  \/ CloseTimerFire
  \/ \E s \in Socks, batch \in SeqsUpTo(ReconnectMsgs, ReconnectInputs - nInputs) :
        Upsert(s, batch)
  \/ \E s \in Socks, ups \in SeqsUpTo(ReconnectUpdates, ReconnectInputs - nInputs) :
        UpdateEvent(s, ups, AllOk)
  \/ \E l \in updLoops : UpdateResume(l, AllOk)

SpecReconnect == Init /\ [][NextReconnect]_vars

Next == NextConn \/ NextWatch \/ NextDrain \/ NextDelete \/ NextReconnect

Spec == Init /\ [][Next]_vars

----------------------------------------------------------------------------
(* Claims on the connection state machine (SpecConn) *)

ReconnectTimers == closeTimers + retryTimers
BodiesRunning == setupCalls + Cardinality(pluginCalls)
LiveSockets == { s \in Socks : Live(conn, s) }

(* C1: once a close event with status code 401 has been handled, the        *)
(* sessions directory is gone and the process has exited, and from that     *)
(* event on reconnectAttempts is not incremented and no reconnect timer is  *)
(* scheduled.                                                                *)
C1_FatalSession ==
  connLog.fatal =>
    /\ exited
    /\ ~sessions
    /\ ~connLog.incAfterFatal
    /\ ~connLog.timerAfterFatal

(* C7: whenever reconnectAttempts exceeds MAX_RECONNECT_ATTEMPTS the        *)
(* process has exited with a non-zero code.                                  *)
C7_ReconnectExhaustion ==
  reconnectAttempts > MAX_RECONNECT_ATTEMPTS => (exited /\ exitCode # 0)

(* C8: a reconnect timer is scheduled only when no reconnect timer is       *)
(* pending and no other silvaConnect call is in progress (so two are never  *)
(* pending).                                                                 *)
C8_ReconnectReentrancy ==
  [][ReconnectTimers' > ReconnectTimers =>
       (ReconnectTimers = 0 /\ BodiesRunning' = 0)]_vars

(* C9: at most one socket is connecting or open, and at most one            *)
(* silvaConnect body is between its isConnecting guard and its return.      *)
C9_OneSession ==
  /\ Cardinality(LiveSockets) <= 1
  /\ BodiesRunning <= 1

(* min(5000 * 1.5^(k-1), 60000) ms, stated without division: d parts are   *)
(* that delay when d * 2^(k-1) = 5000 * 3^(k-1) * MsParts below the cap and *)
(* d = 60000 * MsParts from the cap on                                       *)
IsBackoff(k, d) ==
  IF 5000 * (3 ^ (k - 1)) <= 60000 * (2 ^ (k - 1))
  THEN d * (2 ^ (k - 1)) = 5000 * (3 ^ (k - 1)) * MsParts
  ELSE d = 60000 * MsParts

(* C12: every reconnect timer scheduled for counter value k, by the close   *)
(* branch or by the catch branch, has the delay min(5000 * 1.5^(k-1),       *)
(* 60000) ms with k in 1..MAX_RECONNECT_ATTEMPTS; the delay never exceeds   *)
(* 60000 ms, does not decrease when k grows, and is the same in both        *)
(* branches for the same k.                                                  *)
C12_Backoff ==
  \A x \in connLog.delays :
    /\ x.k \in 1..MAX_RECONNECT_ATTEMPTS
    /\ IsBackoff(x.k, x.parts)
    /\ x.parts <= 60000 * MsParts
    /\ \A y \in connLog.delays :
         /\ x.k <= y.k => x.parts <= y.parts
         /\ x.k = y.k => x.parts = y.parts

(* the catch branch scheduled its last timer just below the cap, for k,    *)
(* and the close branch then scheduled one for k + 1 with the capped delay  *)
C12_Witness ==
  \E x, y \in connLog.delays :
    /\ x.branch = "catch" /\ y.branch = "close"
    /\ y.k = x.k + 1
    /\ x.parts < 60000 * MsParts
    /\ y.parts = 60000 * MsParts

(* C13: reconnectAttempts is 0 right after every open event; a close event  *)
(* whose status code is not 401 increments it by exactly one, a close event *)
(* whose status code is 401 leaves it as it was.                             *)
C13_ReconnectCounter ==
  [][connLog'.events > connLog.events =>
       LET e == connLog'.last IN
       /\ e.kind = "open" => reconnectAttempts' = 0
       /\ (e.kind = "close" /\ e.code # 401) =>
            reconnectAttempts' = reconnectAttempts + 1
       /\ (e.kind = "close" /\ e.code = 401) =>
            reconnectAttempts' = reconnectAttempts]_vars

----------------------------------------------------------------------------
(* Claims on the ingress side (SpecQueue, SpecWatch) *)

(* the messages processMessageQueue hands to handleMessage *)
Dispatchable(m) == m.remoteJid # STATUS_JID /\ m.message # NoContent

(* C4: per messageQueue, handleMessage is invoked in the order in which     *)
(* the messages were appended, at most one handler invocation is in         *)
(* progress, and while isProcessing is true no step (so no call of          *)
(* processMessageQueue) dequeues, dispatches or starts a handler.           *)
C4_OrderedSingleFlight ==
  /\ [](\A s \in Socks :
          /\ handling[s] <= 1
          /\ IsPrefix(hist[s].dispatched, SelectSeq(hist[s].pushed, Dispatchable)))
  /\ [][\A s \in Socks :
          isProcessing[s] =>
            /\ handling'[s] <= handling[s]
            /\ hist'[s].dispatched = hist[s].dispatched
            /\ IsPrefix(messageQueue[s], messageQueue'[s])]_vars

(* two messages were dispatched, a third waits while a handler is awaited   *)
(* and a processMessageQueue timer is pending                                *)
C4_Witness ==
  \E s \in Socks :
    /\ Len(hist[s].dispatched) >= 2
    /\ hist[s].dispatched[1] # hist[s].dispatched[2]
    /\ isProcessing[s] /\ handling[s] = 1
    /\ messageQueue[s] # << >>
    /\ drainTimers[s] > 0

(* C5: after every put (set and overflow check) messageCache holds at most  *)
(* MAX_CACHE entries.                                                        *)
C5_CacheBound ==
  \A s \in Socks :
    /\ Len(messageCache[s]) <= MAX_CACHE
    /\ hist[s].peak <= MAX_CACHE

(* more puts than the cache holds, one of them on a key already cached,     *)
(* and the overflow branch was taken                                         *)
C5_Witness ==
  \E s \in Socks :
    /\ hist[s].evictions # << >>
    /\ hist[s].puts > MAX_CACHE + 1
    /\ Len(messageCache[s]) = MAX_CACHE

(* C6: every overflow removes exactly one entry, the one whose key was      *)
(* inserted earliest among the entries present, never the entry just        *)
(* inserted.                                                                 *)
C6_OldestFirst ==
  \A s \in Socks : \A i \in DOMAIN hist[s].evictions :
    LET e == hist[s].evictions[i] IN
    /\ Cardinality(e.removed) = 1
    /\ e.bornRemoved = {e.oldest}
    /\ e.inserted \notin e.removed
    /\ e.oldest < e.bornInserted

(* an overflow removed an entry whose payload had been overwritten after    *)
(* it was inserted                                                           *)
C6_Witness ==
  \E s \in Socks : \E i \in DOMAIN hist[s].evictions :
    LET e == hist[s].evictions[i] IN
    \E b \in e.bornRemoved, w \in e.writtenRemoved : w > b

(* C10: a run of the memory monitor that samples more than the warning      *)
(* threshold leaves every cache with at most 20% of MAX_CACHE entries and   *)
(* does not end the process.                                                 *)
C10_WatchdogTrim ==
  [][(memTicks' = memTicks + 1 /\ lastSample' > HEAP_WARN_MB) =>
       (~exited' /\ \A s \in Socks : 5 * Len(messageCache'[s]) <= MAX_CACHE)]_vars

(* keyed messages that are not status@broadcast *)
NormalTraffic(m) == m.remoteJid # STATUS_JID

(* no item waits in a queue that nothing will drain *)
NoneStranded ==
  \A s \in Socks :
    messageQueue[s] # << >> => (handling[s] > 0 \/ drainTimers[s] > 0)

C15_FailureIsolation ==
  /\ [][\A s \in Socks :
          hist'[s].failed # hist[s].failed =>
            /\ ~isProcessing'[s]
            /\ drainTimers'[s] > drainTimers[s]
            /\ messageQueue'[s] = messageQueue[s]]_vars
  /\ [](\A s \in Socks :
          messageQueue[s] = << >> =>
            hist[s].dispatched = SelectSeq(hist[s].pushed, Dispatchable))
  /\ \A s \in Socks :
       (hist[s].failed # {}) ~> (messageQueue[s] = << >> /\ ~isProcessing[s])

(* the handler of the first message failed, and two more messages were     *)
(* handed over afterwards                                                    *)
C15_Witness ==
  \E s \in Socks :
    /\ hist[s].failed = {1}
    /\ Len(hist[s].dispatched) = 3
    /\ handling[s] = 0 /\ messageQueue[s] = << >>

(* the item the awaited handler of socket s is working on: the last one     *)
(* shifted from messageQueue                                                 *)
LastShifted(s) == hist[s].pushed[Len(hist[s].pushed) - Len(messageQueue[s])]

(* C17: no status@broadcast message is handed to handleMessage, and no      *)
(* normal-traffic message with content waits in messageQueue while the      *)
(* handler of a status@broadcast item is awaited.                            *)
C17_BroadcastIsolation ==
  \A s \in Socks :
    /\ \A i \in DOMAIN hist[s].dispatched :
         hist[s].dispatched[i].remoteJid # STATUS_JID
    /\ ~(/\ handling[s] > 0
         /\ LastShifted(s).remoteJid = STATUS_JID
         /\ \E i \in DOMAIN messageQueue[s] : Dispatchable(messageQueue[s][i]))

(* C19: the step that handles a messages.upsert batch performs one cache   *)
(* put for every message of the batch that has a key and content, status@   *)
(* broadcast or not (after it the last such message is cached under its     *)
(* key), and hands at most one queue item to a handler, after the puts; no  *)
(* entry of messageCache has empty content.                                  *)
C19_EagerCaching ==
  /\ [](\A s \in Socks : \A i \in DOMAIN messageCache[s] :
          messageCache[s][i].v.message # NoContent)
  /\ [][\A s \in Socks :
          LET new == SubSeq(hist'[s].pushed, Len(hist[s].pushed) + 1,
                            Len(hist'[s].pushed))
              content == SelectSeq(new, LAMBDA m : m.message # NoContent)
          IN new # << >> =>
               /\ hist'[s].puts = hist[s].puts + Len(content)
               /\ content # << >> =>
                    LET m == content[Len(content)] IN
                    MapGet(messageCache'[s], CacheKey(m.remoteJid, m.id)) = m
               /\ Len(hist'[s].dispatched) <= Len(hist[s].dispatched) + 1]_vars

(* a status@broadcast message and a normal message are cached, a message    *)
(* without content was queued and is not cached, and a message was handed   *)
(* to handleMessage                                                          *)
C19_Witness ==
  \E s \in Socks :
    /\ \E i \in DOMAIN messageCache[s] : messageCache[s][i].v.remoteJid = STATUS_JID
    /\ \E i \in DOMAIN messageCache[s] : messageCache[s][i].v.remoteJid # STATUS_JID
    /\ \E i \in DOMAIN hist[s].pushed :
         /\ hist[s].pushed[i].message = NoContent
         /\ ~MapHas(messageCache[s], CacheKey(hist[s].pushed[i].remoteJid,
                                              hist[s].pushed[i].id))
    /\ hist[s].dispatched # << >>

(* the items shifted from the messageQueue of socket s so far *)
Shifted(s) == Len(hist[s].pushed) - Len(messageQueue[s])

(* C23: while a setTimeout(processMessageQueue, 100) scheduled after an     *)
(* item is pending (the delay has not elapsed), the arrival of a            *)
(* messages.upsert batch does not dequeue an item.                           *)
C23_InterItemDelay ==
  [][\A s \in Socks :
       (nInputs' > nInputs /\ drainTimers[s] > 0) =>
         Len(hist'[s].pushed) - Len(messageQueue'[s]) = Shifted(s)]_vars

(* the largest heap sample: above the warning threshold and above any      *)
(* critical threshold between it and the sample                             *)
LargestSample == CHOOSE h \in HeapSamples : \A g \in HeapSamples : g <= h

(* C11: a run of the memory monitor that samples memory above the critical  *)
(* threshold (checked for the largest sample, four times the warning        *)
(* threshold) ends the process in that same run with a non-zero exit code.  *)
C11_CriticalExit ==
  [][(memTicks' = memTicks + 1 /\ lastSample' = LargestSample) =>
       (exited' /\ exitCode' # 0)]_vars

----------------------------------------------------------------------------
(* Claims on the deletion pipeline (SpecDelete) *)

(* the sendMessage calls made for the update at position pos of event ev *)
CallsOf(ev, pos) == { n \in DOMAIN sent : sent[n].ev = ev /\ sent[n].pos = pos }

(* the handler of event ev is past position pos *)
Finished(ev, pos) == ~\E l \in updLoops : l.ev = ev /\ l.from <= pos

(* keys messages.upsert has cached on socket s so far *)
InsertedKeys(s) ==
  { CacheKey(hist[s].pushed[i].remoteJid, hist[s].pushed[i].id) :
      i \in { j \in DOMAIN hist[s].pushed : hist[s].pushed[j].message # NoContent } }

(* C2: a messages.update event that clears, not by the account itself, a    *)
(* message whose cached payload is the text "hello" results in exactly one  *)
(* sendMessage to the owner with the text "hello" (stated for the first     *)
(* such update of the event, looked up on arrival, and for network calls    *)
(* that succeed).                                                            *)
C2_RecoveryRoundTrip ==
  \A ev \in DOMAIN updLog : \A pos \in DOMAIN updLog[ev].ups :
    LET e == updLog[ev]
        u == e.ups[pos]
    IN (/\ u.cleared /\ ~u.fromMe
        /\ pos = FirstDeletion(e.ups, 1)
        /\ MapGet(e.cache, CacheKey(u.remoteJid, u.id)).message = Text("hello")
        /\ \A n \in CallsOf(ev, pos) : sent[n].ok)
       => Cardinality({ n \in CallsOf(ev, pos) :
                          sent[n].to = OwnerJid /\ sent[n].text = "hello" }) = 1

(* C3: a messages.update event that clears, not by the account itself, a    *)
(* message whose key was never cached results in exactly one "could not be  *)
(* recovered" notice to the owner (once its handler is past that update,    *)
(* and for network calls that succeed).                                      *)
C3_RecoveryMiss ==
  \A ev \in DOMAIN updLog : \A pos \in DOMAIN updLog[ev].ups :
    LET e == updLog[ev]
        u == e.ups[pos]
    IN (/\ u.cleared /\ ~u.fromMe
        /\ CacheKey(u.remoteJid, u.id) \notin InsertedKeys(e.sock)
        /\ Finished(ev, pos)
        /\ \A n \in CallsOf(ev, pos) : sent[n].ok)
       => Cardinality({ n \in CallsOf(ev, pos) :
                          sent[n].to = OwnerJid /\ sent[n].kind = "miss" }) = 1

(* the recoveries processed: the updates handleDeletedMessage ran for *)
Recoveries == { [ev |-> sent[n].ev, pos |-> sent[n].pos, at |-> sent[n].at] :
                  n \in DOMAIN sent }

(* C16: any two deletion recoveries that are processed, in one event or in  *)
(* several, are at least DELETE_PROCESS_INTERVAL apart.                      *)
C16_RateControl ==
  \A a, b \in Recoveries :
    (a.ev # b.ev \/ a.pos # b.pos) =>
      (a.at - b.at >= DELETE_PROCESS_INTERVAL \/ b.at - a.at >= DELETE_PROCESS_INTERVAL)

(* C18: no error leaves the messages.update handler; and when a cached      *)
(* media message is recovered (its header was sent), either the media is    *)
(* sent to the owner or the "could not be reuploaded" notice is sent, never *)
(* neither and never both (stated for the first deletion of an event,       *)
(* looked up on arrival).                                                    *)
C18_MediaFailure ==
  /\ rejected = {}
  /\ \A ev \in DOMAIN updLog : \A pos \in DOMAIN updLog[ev].ups :
       LET e == updLog[ev]
           u == e.ups[pos]
           calls == CallsOf(ev, pos)
       IN (/\ e.processed
           /\ pos = FirstDeletion(e.ups, 1)
           /\ MapGet(e.cache, CacheKey(u.remoteJid, u.id)).message.type \in MediaTypes
           /\ \E n \in calls : sent[n].kind = "header" /\ sent[n].ok)
          => ((\E n \in calls : sent[n].kind = "media" /\ sent[n].ok)
               # (\E n \in calls : sent[n].kind = "reuploadFailed"))

(* the upload of a recovered media message failed and the sendMessage of    *)
(* the failure notice failed too                                             *)
C18_Witness ==
  \E n, m \in DOMAIN sent :
    /\ sent[n].ev = sent[m].ev /\ sent[n].pos = sent[m].pos
    /\ sent[n].kind = "media" /\ ~sent[n].ok
    /\ sent[m].kind = "reuploadFailed" /\ ~sent[m].ok

(* C20: every sendMessage of the deletion pipeline is addressed to          *)
(* sock.user.id, none to the chat in which the deletion happened.            *)
C20_OwnerOnly ==
  \A n \in DOMAIN sent :
    /\ sent[n].to = OwnerJid
    /\ sent[n].to # sent[n].chat

(* a miss notice, a header, a recovered media message and a reupload-       *)
(* failure notice were sent for deletions in chat c1                         *)
C20_Witness ==
  \A kind \in {"miss", "header", "media", "reuploadFailed"} :
    \E n \in DOMAIN sent : sent[n].kind = kind /\ sent[n].chat = "c1"

(* C21: every sendMessage of the pipeline belongs to an update of a         *)
(* processed event whose message is cleared and whose key is not fromMe;    *)
(* updates that do not clear the content and deletions by the account       *)
(* itself cause no sendMessage (the cache is read only inside               *)
(* handleDeletedMessage, so they cause no cache access either).             *)
C21_DeletionFilter ==
  \A n \in DOMAIN sent :
    LET u == updLog[sent[n].ev].ups[sent[n].pos] IN
    /\ updLog[sent[n].ev].processed
    /\ u.cleared
    /\ ~u.fromMe

(* a processed event carried a deletion by the account itself, an update    *)
(* that clears nothing and a deletion by somebody else: its handler is      *)
(* over and only the last one had anything sent                              *)
C21_Witness ==
  \E ev \in DOMAIN updLog :
    LET ups == updLog[ev].ups IN
    /\ updLog[ev].processed
    /\ Len(ups) = 3
    /\ ups[1].cleared /\ ups[1].fromMe
    /\ ~ups[2].cleared
    /\ ups[3].cleared /\ ~ups[3].fromMe
    /\ CallsOf(ev, 3) # {}
    /\ CallsOf(ev, 1) = {} /\ CallsOf(ev, 2) = {}
    /\ Finished(ev, 3)

(* C22: a step of the messages.update handler (an event arrives, or its     *)
(* loop resumes) leaves every messageCache as it was, keys, payloads and    *)
(* order; a step that changes a messageCache is a messages.upsert that      *)
(* performed a put.                                                          *)
C22_CacheReadOnly ==
  [][/\ (updLog' # updLog \/ sent' # sent \/ updLoops' # updLoops)
         => messageCache' = messageCache
     /\ \A s \in Socks :
          messageCache'[s] # messageCache[s] => hist'[s].puts > hist[s].puts]_vars

(* the header of a recovery was sent for a cached message, and the cache    *)
(* is full and still holds that message                                      *)
C22_Witness ==
  \E s \in Socks :
    /\ Len(messageCache[s]) = MAX_CACHE
    /\ \E n \in DOMAIN sent :
         /\ updLog[sent[n].ev].sock = s
         /\ sent[n].kind = "header" /\ sent[n].ok
         /\ MapHas(messageCache[s],
                   CacheKey(sent[n].chat,
                            updLog[sent[n].ev].ups[sent[n].pos].id))

(* C24: a socket that has not been made yet has an empty messageCache, an   *)
(* empty messageQueue and isProcessing false, and so has a socket in the    *)
(* step that makes it; a recovery on a socket finds only messages cached on *)
(* that same socket: a deletion event received on socket s whose key was    *)
(* never cached by a messages.upsert of s is answered by the miss notice,   *)
(* whatever the caches of other sockets hold.                                *)
C24_PerConnection ==
  /\ [](\A s \in Socks :
          s > nSock =>
            /\ messageCache[s] = << >>
            /\ messageQueue[s] = << >>
            /\ ~isProcessing[s])
  /\ [][nSock' > nSock =>
          /\ messageCache'[nSock'] = << >>
          /\ messageQueue'[nSock'] = << >>
          /\ ~isProcessing'[nSock']]_vars
  /\ [](\A n \in DOMAIN sent :
          LET e == updLog[sent[n].ev]
              k == CacheKey(e.ups[sent[n].pos].remoteJid, e.ups[sent[n].pos].id)
          IN k \notin InsertedKeys(e.sock) => sent[n].kind = "miss")

(* a message was cached on the first socket, the connection was made again, *)
(* and the deletion of that message received on the second socket was       *)
(* answered by the miss notice while the first cache still holds it          *)
C24_Witness ==
  \E n \in DOMAIN sent :
    LET e == updLog[sent[n].ev]
        k == CacheKey(e.ups[sent[n].pos].remoteJid, e.ups[sent[n].pos].id)
    IN /\ e.sock = 2
       /\ sent[n].kind = "miss"
       /\ MapHas(messageCache[1], k)
       /\ messageCache[2] = << >>

====
